---- MODULE Spec2Model ----
(***************************************************************************)
(* Model of src/components/GestureRecognition.tsx: the classifyGesture     *)
(* rule chain and the onResults frame handler with its rolling history.    *)
(*                                                                         *)
(* Numbers.  Landmark coordinates are exact rationals n / Scale (so one    *)
(* unit is 0.02 and the thresholds 0.06 and 0.08 are 3 and 4 units).       *)
(* Every comparison of the source is decided exactly on squared            *)
(* quantities; IEEE rounding of Math.sqrt is not modelled.  A confidence   *)
(* is kept in hundredths (95 is 0.95).  NaN, which JavaScript produces     *)
(* from arithmetic on an absent property, is the value NaN below; every    *)
(* comparison with it is false, as in JavaScript.                          *)
(***************************************************************************)
EXTENDS Integers, Sequences, FiniteSets

VARIABLES results, currentGesture, confidence, gestureHistory, isActive,
          now, accepted, uncaught

vars == <<results, currentGesture, confidence, gestureHistory, isActive,
          now, accepted, uncaught>>

-----------------------------------------------------------------------------
(* JavaScript values *)

\* undefined / null
Undefined == [undef |-> TRUE]

IsUndefined(v) == "undef" \in DOMAIN v

\* an array value; indices are 0-based as in the source
Arr(s) == [arr |-> s]

Length(a) == Len(a.arr)

\* a[i]: undefined when i is out of range
Index(a, i) == IF i < Len(a.arr) THEN a.arr[i + 1] ELSE Undefined

\* a landmark {x, y}
Pt(px, py) == [x |-> px, y |-> py]

\* a landmark object carrying neither x nor y: reading them gives undefined
Malformed == [z |-> 0]

\* the marker of an exception raised inside the try block
Thrown == [thrown |-> TRUE]

IsThrown(v) == "thrown" \in DOMAIN v

-----------------------------------------------------------------------------
(* Numbers *)

\* coordinates are multiples of 1 / Scale
Scale == 50

\* squared distances are never negative, so -1 is free to stand for NaN
NaN == 0 - 1

HasXY(p) == {"x", "y"} \subseteq DOMAIN p

\* (a.x - b.x)^2 + (a.y - b.y)^2, in squared units
Dist2(a, b) ==
    IF HasXY(a) /\ HasXY(b)
    THEN (a.x - b.x) * (a.x - b.x) + (a.y - b.y) * (a.y - b.y)
    ELSE NaN

\* 0.8 and 1.2 as fractions
ExtNum == 4
ExtDen == 5
ThumbNum == 6
ThumbDen == 5

\* sqrt(a) > (sqrt(b) + sqrt(c)) * ExtNum / ExtDen, decided exactly
SqrtGtScaledSum(a, b, c) ==
    LET l == ExtDen * ExtDen * a - ExtNum * ExtNum * (b + c)
    IN  l > 0 /\ l * l > 4 * ExtNum * ExtNum * ExtNum * ExtNum * b * c

isFingerExtended(tip, pip, mcp) ==
    LET tipToPip == Dist2(tip, pip)
        pipToMcp == Dist2(pip, mcp)
        tipToMcp == Dist2(tip, mcp)
    IN  /\ tipToPip # NaN /\ pipToMcp # NaN /\ tipToMcp # NaN
        /\ SqrtGtScaledSum(tipToMcp, tipToPip, pipToMcp)

isThumbExtended(thumb_tip, thumb_ip, thumb_mcp) ==
    LET thumbLength == Dist2(thumb_tip, thumb_mcp)
        baseLength == Dist2(thumb_ip, thumb_mcp)
    IN  /\ thumbLength # NaN /\ baseLength # NaN
        /\ ThumbDen * ThumbDen * thumbLength > ThumbNum * ThumbNum * baseLength

\* thresholds on the thumb-index tip distance, in hundredths (0.06, 0.08)
OkDist == 6
GunDist == 8

\* sqrt(d2) / Scale < h / 100
DistLt(d2, h) == d2 # NaN /\ d2 * 10000 < h * h * Scale * Scale

\* DistGt with >= for >
DistGe(d2, h) == d2 # NaN /\ d2 * 10000 >= h * h * Scale * Scale

\* sqrt(d2) / Scale > h / 100
DistGt(d2, h) == d2 # NaN /\ d2 * 10000 > h * h * Scale * Scale

\* cos(70 deg)^2 = cos(110 deg)^2 = 0.116977778..., to five places
Cos70SqNum == 11698
Cos70SqDen == 100000

\* 70 < acos(dot / (thumbMag * indexMag)) * 180 / PI < 110, that is
\* |cos(angle)| < cos(70 deg); a zero magnitude gives NaN and no match
AngleInLRange(thumb_tip, thumb_mcp, index_tip, index_mcp) ==
    LET tx == thumb_tip.x - thumb_mcp.x
        ty == thumb_tip.y - thumb_mcp.y
        ix == index_tip.x - index_mcp.x
        iy == index_tip.y - index_mcp.y
        dotProduct == tx * ix + ty * iy
        thumbMag2 == tx * tx + ty * ty
        indexMag2 == ix * ix + iy * iy
    IN  /\ thumbMag2 * indexMag2 > 0
        /\ dotProduct * dotProduct * Cos70SqDen
              < Cos70SqNum * thumbMag2 * indexMag2

-----------------------------------------------------------------------------
(* classifyGesture *)

Res(g, c) == [gesture |-> g, confidence |-> c]

NoneResult == Res("none", 0)

\* the landmarks whose x or y the try block reads before any return
ReadLandmarks == {2, 3, 4, 5, 6, 8, 9, 10, 12, 13, 14, 16, 17, 18, 20}

\* the if-chain as its ordered list of (condition, result) pairs; f holds
\* the five extension flags and the features the conditions read
RuleTable(f) ==
    LET extendedFingers ==
            Cardinality({k \in 1..5 :
                <<f.isThumbUp, f.isIndexUp, f.isMiddleUp, f.isRingUp,
                  f.isPinkyUp>>[k]})
        Only(t, i, m, r, p) ==
            /\ f.isThumbUp = t /\ f.isIndexUp = i /\ f.isMiddleUp = m
            /\ f.isRingUp = r /\ f.isPinkyUp = p
        Rule(c, g, conf) == [when |-> c, then |-> Res(g, conf)]
    IN  << Rule(extendedFingers = 0, "fist", 95),
           Rule(extendedFingers = 5, "open_hand", 95),
           Rule(Only(TRUE, FALSE, FALSE, FALSE, FALSE), "thumbs_up", 90),
           Rule(Only(FALSE, FALSE, FALSE, FALSE, FALSE) /\ f.thumbDown,
                "thumbs_down", 85),
           Rule(Only(FALSE, TRUE, FALSE, FALSE, FALSE), "pointing", 90),
           Rule(Only(FALSE, TRUE, TRUE, FALSE, FALSE), "peace", 90),
           Rule(Only(TRUE, TRUE, FALSE, FALSE, FALSE)
                    /\ DistLt(f.thumbIndexDistance, OkDist), "ok", 90),
           Rule(Only(FALSE, TRUE, FALSE, FALSE, TRUE), "rock_on", 90),
           Rule(Only(TRUE, FALSE, FALSE, FALSE, TRUE), "call_me", 85),
           Rule(Only(TRUE, TRUE, FALSE, FALSE, FALSE)
                    /\ DistGt(f.thumbIndexDistance, GunDist), "gun", 80),
           Rule(Only(FALSE, TRUE, TRUE, TRUE, TRUE) /\ f.spockGaps,
                "spock", 85),
           Rule(Only(TRUE, TRUE, FALSE, FALSE, FALSE) /\ f.lAngle,
                "l_shape", 80),
           Rule(Only(TRUE, TRUE, TRUE, FALSE, FALSE), "three", 85),
           Rule(Only(FALSE, TRUE, TRUE, TRUE, TRUE), "four", 85),
           Rule(Only(FALSE, TRUE, FALSE, FALSE, FALSE), "one", 80),
           Rule(Only(FALSE, TRUE, TRUE, FALSE, FALSE), "two", 80) >>

\* the first rule of the list whose condition holds returns; else the
\* final return of the try block
FirstMatch(table) ==
    LET hits == {k \in 1..Len(table) : table[k].when}
    IN  IF hits = {} THEN Res("unknown", 60)
        ELSE table[CHOOSE k \in hits : \A j \in hits : k <= j].then

\* Rules with the l_shape rule not requiring the middle finger folded
RulesLShapeIgnoresMiddle(f) ==
    FirstMatch([RuleTable(f) EXCEPT
        ![12].when = /\ f.isThumbUp /\ f.isIndexUp /\ ~f.isRingUp
                     /\ ~f.isPinkyUp /\ f.lAngle])

\* Rules with the spock rule not looking at the gaps
RulesSpockWithoutGaps(f) ==
    FirstMatch([RuleTable(f) EXCEPT
        ![11].when = /\ ~f.isThumbUp /\ f.isIndexUp /\ f.isMiddleUp
                     /\ f.isRingUp /\ f.isPinkyUp])

\* Rules with the pointing and the one rule in each other's place
RulesOneBeforePointing(f) ==
    FirstMatch([RuleTable(f) EXCEPT ![5] = RuleTable(f)[15],
                                    ![15] = RuleTable(f)[5]])

Rules(f) == FirstMatch(RuleTable(f))

\* thumb_tip.y > thumb_mcp.y
ThumbTipBelowBase(points) ==
    LET thumb_tip == Index(points, 4)
        thumb_mcp == Index(points, 2)
    IN  /\ "y" \in DOMAIN thumb_tip /\ "y" \in DOMAIN thumb_mcp
        /\ thumb_tip.y > thumb_mcp.y

\* middleRingGap > indexMiddleGap && middleRingGap > ringPinkyGap
SpockGaps(points) ==
    LET indexMiddleGap == Dist2(Index(points, 8), Index(points, 12))
        middleRingGap == Dist2(Index(points, 12), Index(points, 16))
        ringPinkyGap == Dist2(Index(points, 16), Index(points, 20))
    IN  /\ indexMiddleGap # NaN /\ middleRingGap # NaN /\ ringPinkyGap # NaN
        /\ middleRingGap > indexMiddleGap /\ middleRingGap > ringPinkyGap

ThumbUp(points) ==
    isThumbExtended(Index(points, 4), Index(points, 3), Index(points, 2))

IndexUp(points) ==
    isFingerExtended(Index(points, 8), Index(points, 6), Index(points, 5))

MiddleUp(points) ==
    isFingerExtended(Index(points, 12), Index(points, 10), Index(points, 9))

RingUp(points) ==
    isFingerExtended(Index(points, 16), Index(points, 14), Index(points, 13))

PinkyUp(points) ==
    isFingerExtended(Index(points, 20), Index(points, 18), Index(points, 17))

ThumbIndexDistance(points) == Dist2(Index(points, 4), Index(points, 8))

LAngle(points) ==
    /\ HasXY(Index(points, 4)) /\ HasXY(Index(points, 2))
    /\ HasXY(Index(points, 8)) /\ HasXY(Index(points, 5))
    /\ AngleInLRange(Index(points, 4), Index(points, 2),
                     Index(points, 8), Index(points, 5))

\* Throws when reading a missing landmark yields NaN instead of raising
ThrowsOnlyOnMissingHand(points) == IsUndefined(points)

\* a property read on undefined: points itself, or a landmark that is read
Throws(points) ==
    \/ IsUndefined(points)
    \/ \E i \in ReadLandmarks : IsUndefined(Index(points, i))

\* the extension flags and features computed from the landmark list
Features(points) ==
    [isThumbUp |-> ThumbUp(points), isIndexUp |-> IndexUp(points),
     isMiddleUp |-> MiddleUp(points), isRingUp |-> RingUp(points),
     isPinkyUp |-> PinkyUp(points),
     thumbIndexDistance |-> ThumbIndexDistance(points),
     thumbDown |-> ThumbTipBelowBase(points),
     spockGaps |-> SpockGaps(points), lAngle |-> LAngle(points)]

\* the body of the try block: a result, or Thrown
TryBody(landmarks) ==
    LET points == Index(landmarks, 0)
    IN  IF Throws(points) THEN Thrown ELSE Rules(Features(points))

\* classifyGesture without the catch clause
classifyGestureNoCatch(landmarks) ==
    IF IsUndefined(landmarks) \/ Length(landmarks) = 0 THEN NoneResult
    ELSE TryBody(landmarks)

classifyGesture(landmarks) ==
    IF IsUndefined(landmarks) \/ Length(landmarks) = 0 THEN NoneResult
    ELSE LET r == TryBody(landmarks)
         IN  IF IsThrown(r) THEN NoneResult ELSE r

-----------------------------------------------------------------------------
(* onResults *)

\* the capacity of the history: slice(-10)
HistoryCap == 10

\* the confidence, in hundredths, a result must exceed to be recorded: 0.7
RecordAbove == 70

\* SliceLast keeping the first n: slice(0, n)
SliceFirst(s, n) == IF Len(s) <= n THEN s ELSE SubSeq(s, 1, n)

\* s.slice(-n)
SliceLast(s, n) == IF Len(s) <= n THEN s ELSE SubSeq(s, Len(s) - n + 1, Len(s))

\* the Results object of one frame
Frame(mhl) == [multiHandLandmarks |-> mhl]

\* before the first frame
NoFrame == [none |-> TRUE]

Init ==
    /\ results = NoFrame
    /\ currentGesture = "none"
    /\ confidence = 0
    /\ gestureHistory = << >>
    /\ isActive = FALSE
    /\ now = 0
    /\ accepted = << >>
    /\ uncaught = FALSE

\* Qualifies with the threshold 0.5
QualifiesAboveHalf(result) == result.confidence > 50

\* if (result.confidence > 0.7)
Qualifies(result) == result.confidence > RecordAbove

\* "Add to history": the entry is appended and the last ten are kept.
\* accepted lists every entry ever recorded (a history variable); now is
\* what Date.now() returns, frames being a millisecond or more apart.
Record(result) ==
    IF Qualifies(result)
    THEN LET entry == [gesture |-> result.gesture,
                       confidence |-> result.confidence,
                       timestamp |-> now]
         IN  /\ gestureHistory' =
                   SliceLast(Append(gestureHistory, entry), HistoryCap)
             /\ accepted' = Append(accepted, entry)
             /\ now' = now + 1
    ELSE UNCHANGED <<gestureHistory, now, accepted>>

\* the branch of a frame with a hand.  An exception leaving classifyGesture
\* would end the handler after setIsActive(true); uncaught records it.
HandSeen(r) ==
    LET result == classifyGesture(r.multiHandLandmarks)
    IN  /\ isActive' = TRUE
        /\ IF IsThrown(result)
           THEN /\ uncaught' = TRUE
                /\ UNCHANGED <<currentGesture, confidence, gestureHistory,
                               now, accepted>>
           ELSE /\ currentGesture' = result.gesture
                /\ confidence' = result.confidence
                /\ uncaught' = uncaught
                /\ Record(result)

\* NoHandSeen leaving the displayed gesture as it was
NoHandSeenKeepsDisplay ==
    /\ isActive' = FALSE
    /\ UNCHANGED <<currentGesture, confidence, gestureHistory, now, accepted,
                   uncaught>>

\* the branch of a frame without a hand
NoHandSeen ==
    /\ isActive' = FALSE
    /\ currentGesture' = "none"
    /\ confidence' = 0
    /\ UNCHANGED <<gestureHistory, now, accepted, uncaught>>

\* results.multiHandLandmarks && results.multiHandLandmarks.length > 0
HasHands(r) ==
    /\ "multiHandLandmarks" \in DOMAIN r
    /\ ~IsUndefined(r.multiHandLandmarks)
    /\ Length(r.multiHandLandmarks) > 0

\* onResults past its early returns; results records the frame handled
Process(r) ==
    /\ results' = r
    /\ IF HasHands(r) THEN HandSeen(r) ELSE NoHandSeen

-----------------------------------------------------------------------------
(* Hand poses fed to the model *)

\* finger shapes <<base joint, middle joint, tip>>, in units of 1 / Scale
ThumbShapes ==
    { <<Pt(7, 10), Pt(7, 8), Pt(7, 6)>>,     \* extended, upward
      <<Pt(3, 6), Pt(5, 6), Pt(7, 6)>>,      \* extended, sideways
      <<Pt(2, 6), Pt(4, 6), Pt(6, 6)>>,
      <<Pt(4, 6), Pt(6, 6), Pt(8, 6)>>,
      <<Pt(1, 6), Pt(3, 6), Pt(5, 6)>>,
      <<Pt(7, 9), Pt(7, 7), Pt(7, 5)>>,
      <<Pt(5, 6), Pt(7, 6), Pt(9, 6)>>,
      <<Pt(9, 11), Pt(9, 9), Pt(9, 7)>>,
      <<Pt(4, 7), Pt(5, 7), Pt(7, 6)>>,      \* 71.6 deg to an upright index
      <<Pt(2, 8), Pt(4, 7), Pt(7, 6)>>,      \* 68.2 deg to an upright index
      <<Pt(6, 12), Pt(6, 14), Pt(6, 16)>>,   \* extended, downward
      <<Pt(6, 12), Pt(6, 13), Pt(6, 13)>>,   \* folded, tip below the base
      <<Pt(6, 12), Pt(6, 11), Pt(6, 11)>>,   \* folded, tip above the base
      <<Pt(6, 12), Pt(9, 16), Pt(12, 12)>> } \* length = 1.2 * base exactly

IndexShapes ==
    { <<Pt(10, 10), Pt(10, 8), Pt(10, 6)>>,   \* straight up
      <<Pt(10, 10), Pt(10, 8), Pt(10, 9)>>,   \* curled
      <<Pt(10, 10), Pt(10, 8), Pt(11, 6)>>,   \* slightly bent, extended
      <<Pt(10, 10), Pt(12, 10), Pt(14, 10)>>, \* straight, sideways
      <<Pt(10, 10), Pt(13, 6), Pt(10, 2)>> }  \* reach = 0.8 * path exactly

MiddleShapes ==
    { <<Pt(13, 10), Pt(13, 8), Pt(13, 6)>>,
      <<Pt(13, 10), Pt(13, 8), Pt(13, 9)>>,
      <<Pt(13, 10), Pt(13, 8), Pt(12, 6)>> }

RingShapes ==
    { <<Pt(16, 10), Pt(16, 8), Pt(16, 6)>>,
      <<Pt(16, 10), Pt(16, 8), Pt(16, 9)>>,
      <<Pt(16, 10), Pt(16, 8), Pt(17, 6)>> }

PinkyShapes ==
    { <<Pt(19, 10), Pt(19, 8), Pt(19, 6)>>,
      <<Pt(19, 10), Pt(19, 8), Pt(19, 9)>>,
      <<Pt(19, 10), Pt(19, 8), Pt(20, 6)>>,
      <<Pt(19, 10), Pt(19, 8), Pt(21, 6)>> }

\* the 21 landmarks: wrist, then four per finger, base to tip
Pose(t, i, m, r, p) ==
    Arr(<< Pt(10, 20), Pt(8, 16), t[1], t[2], t[3],
           i[1], i[2], i[2], i[3],
           m[1], m[2], m[2], m[3],
           r[1], r[2], r[2], r[3],
           p[1], p[2], p[2], p[3] >>)

Poses ==
    { Pose(t, i, m, r, p) : t \in ThumbShapes, i \in IndexShapes,
                            m \in MiddleShapes, r \in RingShapes,
                            p \in PinkyShapes }

\* pose with landmark i replaced by v
With(pose, i, v) == Arr([pose.arr EXCEPT ![i + 1] = v])

\* the first n landmarks of pose
Truncated(pose, n) == Arr(SubSeq(pose.arr, 1, n))

\* pose followed by one more landmark
Extended(pose) == Arr(Append(pose.arr, Pt(0, 0)))

\* the poses the damaged variants are made from
VariantBases ==
    { pose \in Poses :
        /\ Index(pose, 13) = Pt(16, 10) /\ Index(pose, 16) = Pt(16, 9)
        /\ Index(pose, 12) # Pt(12, 6)
        /\ Index(pose, 20) \in {Pt(19, 6), Pt(19, 9)}
        /\ Index(pose, 8) \in {Pt(10, 6), Pt(10, 9)}
        /\ Index(pose, 2) \in {Pt(7, 10), Pt(6, 12)} }

ShortPoses == { Truncated(pose, n) : pose \in VariantBases, n \in {0, 5, 20} }

LongPoses == { Extended(pose) : pose \in VariantBases }

HolePoses ==
    { With(pose, i, Undefined) : pose \in VariantBases, i \in {0, 4, 7, 20} }

MalformedPoses ==
    { With(pose, i, Malformed) : pose \in VariantBases, i \in {4, 8} }
        \cup { Arr([k \in 1..21 |-> Malformed]) }

\* a closed hand, a hand with only the index up, a hand with only the
\* middle finger up (no rule matches it)
FistPose ==
    Pose(<<Pt(6, 12), Pt(6, 11), Pt(6, 11)>>,
         <<Pt(10, 10), Pt(10, 8), Pt(10, 9)>>,
         <<Pt(13, 10), Pt(13, 8), Pt(13, 9)>>,
         <<Pt(16, 10), Pt(16, 8), Pt(16, 9)>>,
         <<Pt(19, 10), Pt(19, 8), Pt(19, 9)>>)

PointingPose == With(FistPose, 8, Pt(10, 6))

UnknownPose == With(FistPose, 12, Pt(13, 6))

\* the multiHandLandmarks values of the frames
HandLists ==
    { Arr(<<pose>>) :
        pose \in Poses \cup ShortPoses \cup LongPoses \cup HolePoses
                       \cup MalformedPoses }
        \cup { Arr(<<a, b>>) : a, b \in {FistPose, PointingPose, UnknownPose} }
        \cup { Arr(<<Undefined>>), Arr(<< >>), Undefined }

ClassifyInputs == { Frame(mhl) : mhl \in HandLists }

\* the frames of the long runs: two recorded gestures, an unrecorded one,
\* a pose that makes the try block throw, and frames without a hand
FrameInputs ==
    { Frame(Arr(<<FistPose>>)), Frame(Arr(<<PointingPose>>)),
      Frame(Arr(<<UnknownPose>>)), Frame(Arr(<<Truncated(FistPose, 20)>>)),
      Frame(Arr(<< >>)), Frame(Undefined) }

-----------------------------------------------------------------------------
(* Specifications *)

\* frames stop once this many results were recorded
MaxAccepted == 11

\* the runs over ClassifyInputs stop once this many results were recorded
MaxRepeats == 2

\* hands.onResults(onResults): a frame arrives; with canvasRef or videoRef
\* unset, or without a 2d context, the handler returns at once
OnResults ==
    /\ Len(accepted) < MaxAccepted
    /\ \E r \in FrameInputs, refsOk \in BOOLEAN :
          IF refsOk THEN Process(r) ELSE UNCHANGED vars

Next == OnResults

Spec == Init /\ [][Next]_vars

\* the first frame is any of ClassifyInputs; after it the same frame comes
\* again, or one of FrameInputs
OnResultsAny ==
    /\ Len(accepted) < MaxRepeats
    /\ \E r \in (IF results = NoFrame THEN ClassifyInputs
                 ELSE {results} \cup FrameInputs),
          refsOk \in BOOLEAN :
          IF refsOk THEN Process(r) ELSE UNCHANGED vars

NextClassify == OnResultsAny

SpecClassify == Init /\ [][NextClassify]_vars

-----------------------------------------------------------------------------
(* Properties *)

\* what the presentation layer shows
Shown == Res(currentGesture, confidence)

\* the frame last handled carried a hand; Hand is its first hand
FrameHasHand == HasHands(results)

Hand == Index(results.multiHandLandmarks, 0)

\* ... and every landmark the classifier reads is there
WholeHand == FrameHasHand /\ ~Throws(Hand)

\* the five extension flags: thumb, index, middle, ring, pinky
Flags(points) ==
    <<ThumbUp(points), IndexUp(points), MiddleUp(points), RingUp(points),
      PinkyUp(points)>>

Min(a, b) == IF a <= b THEN a ELSE b

\* C1: the history holds exactly the most recent min(k, 10) of the k entries
\* recorded so far, oldest first in arrival order, so it never holds more
\* than 10 and from the 11th on the oldest entry is the one dropped.
C1_HistoryIsLastTen ==
    /\ Len(gestureHistory) <= HistoryCap
    /\ Len(gestureHistory) = Min(Len(accepted), HistoryCap)
    /\ \A k \in 1..Len(gestureHistory) :
          gestureHistory[k] = accepted[Len(accepted) - Len(gestureHistory) + k]

C1_Witness ==
    /\ Len(accepted) = HistoryCap + 1
    /\ Len(gestureHistory) = HistoryCap
    /\ gestureHistory[1] = accepted[2]
    /\ gestureHistory[HistoryCap] = accepted[HistoryCap + 1]
    /\ accepted[1].gesture # accepted[2].gesture

\* C2: every entry ever recorded has a confidence above 0.7 (so none is
\* unknown or none), and a frame whose result has a confidence of 0.7 or
\* less leaves the history as it was.
C2_OnlyConfidentRecorded ==
    /\ [](\A k \in 1..Len(accepted) :
             /\ accepted[k].confidence > 70
             /\ accepted[k].gesture \notin {"unknown", "none"})
    /\ [](\A k \in 1..Len(gestureHistory) :
             /\ gestureHistory[k].confidence > 70
             /\ gestureHistory[k].gesture \notin {"unknown", "none"})
    /\ [][confidence' <= 70 => gestureHistory' = gestureHistory]_vars

C2_Witness ==
    /\ Len(gestureHistory) = 1
    /\ gestureHistory[1].gesture = "spock"
    /\ FrameHasHand
    /\ Shown = Res("unknown", 60)

C4_NoExceptionEscapes ==
    /\ uncaught = FALSE
    /\ FrameHasHand =>
          /\ currentGesture \in
                {"fist", "open_hand", "thumbs_up", "thumbs_down", "pointing",
                 "peace", "ok", "rock_on", "call_me", "gun", "spock",
                 "l_shape", "three", "four", "one", "two", "unknown", "none"}
          /\ IsThrown(TryBody(results.multiHandLandmarks))
                => Shown = NoneResult

C4_Witness ==
    /\ FrameHasHand
    /\ ~IsUndefined(Hand)
    /\ Length(Hand) = 21
    /\ IsUndefined(Index(Hand, 4))
    /\ Shown = NoneResult
    /\ uncaught = FALSE

\* C5: a 21-landmark pose with no finger extended and the thumb tip below
\* the thumb base is classified thumbs_down with confidence 0.85.
C5_ThumbsDown ==
    (WholeHand /\ Length(Hand) = 21
        /\ Flags(Hand) = <<FALSE, FALSE, FALSE, FALSE, FALSE>>
        /\ ThumbTipBelowBase(Hand))
      => Shown = Res("thumbs_down", 85)

\* C6: for a valid 21-landmark pose these patterns of the five extension
\* flags fix the result, whatever the distances, gaps and angle: none (thumb
\* tip not below its base) fist 0.95, all open_hand 0.95, thumb thumbs_up
\* 0.90, index pointing 0.90, index+middle peace 0.90, index+pinky rock_on
\* 0.90, thumb+pinky call_me 0.85, thumb+index+middle three 0.85.
C6_FlagsDecide ==
    (WholeHand /\ Length(Hand) = 21) =>
        LET fl == Flags(Hand)
        IN  /\ (fl = <<FALSE, FALSE, FALSE, FALSE, FALSE>>
                    /\ ~ThumbTipBelowBase(Hand)) => Shown = Res("fist", 95)
            /\ fl = <<TRUE, TRUE, TRUE, TRUE, TRUE>>
                  => Shown = Res("open_hand", 95)
            /\ fl = <<TRUE, FALSE, FALSE, FALSE, FALSE>>
                  => Shown = Res("thumbs_up", 90)
            /\ fl = <<FALSE, TRUE, FALSE, FALSE, FALSE>>
                  => Shown = Res("pointing", 90)
            /\ fl = <<FALSE, TRUE, TRUE, FALSE, FALSE>>
                  => Shown = Res("peace", 90)
            /\ fl = <<FALSE, TRUE, FALSE, FALSE, TRUE>>
                  => Shown = Res("rock_on", 90)
            /\ fl = <<TRUE, FALSE, FALSE, FALSE, TRUE>>
                  => Shown = Res("call_me", 85)
            /\ fl = <<TRUE, TRUE, TRUE, FALSE, FALSE>>
                  => Shown = Res("three", 85)

\* three fingers up although the thumb-index angle is in the l_shape range
C6_Witness ==
    /\ WholeHand
    /\ Length(Hand) = 21
    /\ Flags(Hand) = <<TRUE, TRUE, TRUE, FALSE, FALSE>>
    /\ LAngle(Hand)
    /\ Shown = Res("three", 85)

\* C7: with exactly thumb and index extended, a thumb-index tip distance
\* below 0.06 gives ok 0.90, one above 0.08 gives gun 0.80, and one in
\* [0.06, 0.08] gives l_shape 0.80 when the thumb/index angle is strictly
\* between 70 and 110 degrees and unknown 0.60 otherwise.
C7_OkGunGap ==
    (WholeHand /\ Flags(Hand) = <<TRUE, TRUE, FALSE, FALSE, FALSE>>) =>
        LET d2 == ThumbIndexDistance(Hand) * 10000
        IN  /\ d2 < 36 * Scale * Scale => Shown = Res("ok", 90)
            /\ d2 > 64 * Scale * Scale => Shown = Res("gun", 80)
            /\ (d2 >= 36 * Scale * Scale /\ d2 <= 64 * Scale * Scale) =>
                  Shown = IF LAngle(Hand) THEN Res("l_shape", 80)
                          ELSE Res("unknown", 60)

\* the distance is 0.08 exactly and the angle a right angle
C7_Witness ==
    /\ WholeHand
    /\ Flags(Hand) = <<TRUE, TRUE, FALSE, FALSE, FALSE>>
    /\ ThumbIndexDistance(Hand) * 10000 = 64 * Scale * Scale
    /\ Shown = Res("l_shape", 80)

\* C8 as claimed: no pose is classified four.
C8_FourNeverShown == currentGesture # "four"

\* C8 as amended: four 0.85 is the result exactly for the poses with index,
\* middle, ring and pinky extended and the thumb not, whose middle-ring gap
\* is not larger than both neighbouring gaps; where it is larger than both,
\* the spock rule comes first and the result is spock 0.85.
C8_FourWhenNotSpock ==
    LET pattern == /\ WholeHand
                   /\ Flags(Hand) = <<FALSE, TRUE, TRUE, TRUE, TRUE>>
    IN  /\ currentGesture = "four" <=> (pattern /\ ~SpockGaps(Hand))
        /\ currentGesture = "four" => confidence = 85
        /\ (pattern /\ SpockGaps(Hand)) => Shown = Res("spock", 85)

\* four, with the middle-ring gap equal to the ring-pinky gap
C8_Witness ==
    /\ WholeHand
    /\ Flags(Hand) = <<FALSE, TRUE, TRUE, TRUE, TRUE>>
    /\ ~SpockGaps(Hand)
    /\ Shown = Res("four", 85)

C10_FrameEffect ==
    /\ []((results # NoFrame /\ ~FrameHasHand) => Shown = NoneResult)
    /\ [](FrameHasHand => Shown = classifyGesture(results.multiHandLandmarks))
    /\ [][~HasHands(results') => gestureHistory' = gestureHistory]_vars

C10_Witness ==
    /\ results # NoFrame
    /\ ~FrameHasHand
    /\ Shown = NoneResult
    /\ Len(gestureHistory) = 3
    /\ gestureHistory[3].gesture = "pointing"

====
